---- MODULE Spec2Model ----
(***************************************************************************)
(* The graph executor of plugins/graph/src/index.ts: defineGraph builds a  *)
(* node registry (addNode / removeNode) and an executor flow that runs the *)
(* entrypoint and then dispatches registered nodes one after another,      *)
(* classifying every node result as a Continuation {state, nextNode}, a    *)
(* Terminal output, or an invalid output.                                  *)
(*                                                                         *)
(* One behaviour of the model is one defineGraph(config, entrypoint,       *)
(* beforeFinish) value: the registry starts empty, registration calls and  *)
(* the steps of the executor's invocations interleave at the awaits of the *)
(* async executor body.                                                    *)
(***************************************************************************)
EXTENDS Integers, Sequences, FiniteSets, TLC

\* ------------------------------------------------------------------ bounds

\* Most node dispatches (calls of streamFlow) one invocation may make.
MaxSteps == 2
\* Most chunks one invocation forwards to its streaming callback.
MaxChunks == 1

\* ------------------------------------------------------------------ values

\* Names a flow or a nextNode may carry.  "toString" is a key that every
\* object literal inherits from Object.prototype: `nodes` is created as {}.
OwnNames == {"a", "b"}
InheritedNames == {"toString"}
Names == OwnNames \cup InheritedNames

\* Flows offered to addNode: two distinct flows named "a", one of each other name.
Flows == {[name |-> "a", id |-> 1], [name |-> "a", id |-> 2],
          [name |-> "b", id |-> 1], [name |-> "toString", id |-> 1]}
NoFlow == [name |-> "", id |-> 0]

\* JavaScript values of the `state` slot: {count: n}, {count: n, extra: 1},
\* an object that is not of that form, or undefined (the key is missing).
Count(n) == [tag |-> "count", count |-> n]
CountExtra(n) == [tag |-> "countExtra", count |-> n]
OtherState == [tag |-> "other", count |-> 0]
UndefinedState == [tag |-> "undefined", count |-> 0]

\* JavaScript values of the `nextNode` slot: a string, a number, undefined.
Str(n) == [type |-> "string", name |-> n]
NumberNext == [type |-> "number", name |-> ""]
UndefinedNext == [type |-> "undefined", name |-> ""]

\* A node result: an object with optional keys state, nextNode, done (any
\* other key, such as foo, is an object with none of them set), or a
\* primitive (a string).  done is "true", "false" or "absent".
Obj(s, n, d) == [kind |-> "object", state |-> s, nextNode |-> n, done |-> d]
Primitive == [kind |-> "string", state |-> UndefinedState, nextNode |-> UndefinedNext, done |-> "absent"]
NoResult == [kind |-> "none", state |-> UndefinedState, nextNode |-> UndefinedNext, done |-> "absent"]

\* The results a node is let to return in the model.
ResultVals ==
    {Obj(Count(1), Str(n), "absent") : n \in Names}            \* {state: {count: 1}, nextNode: n}
        \cup {Obj(Count(0), Str("a"), "true"),                 \* {state, nextNode, done: true}
              Obj(OtherState, Str("a"), "absent"),             \* {state: {x: 1}, nextNode: "a"}
              Obj(UndefinedState, Str("b"), "true"),           \* {nextNode: "b", done: true}
              Obj(Count(1), NumberNext, "absent"),             \* {state: {count: 1}, nextNode: 7}
              Obj(UndefinedState, UndefinedNext, "true"),      \* {done: true}
              Obj(UndefinedState, UndefinedNext, "absent"),    \* {foo: 1}
              Primitive}                                       \* "text"

Chunks == {"x"}

\* States the entrypoint is let to return (its result is not validated).
EntryStates == {Count(0), OtherState}

\* Errors: the message template and the node name put into it.
NoError == [msg |-> "", node |-> ""]
Err(m, n) == [msg |-> m, node |-> n]

\* What a registration call threw, with the call that threw it.
NoThrow == [op |-> "", msg |-> "", node |-> ""]

\* ------------------------------------------------------------------ state

VARIABLES
    stateSchema,        \* config.stateSchema: "count" (z.object({count: z.number()})) or "omitted"
    outputSchema,       \* config.outputSchema: "done" (z.object({done: z.literal(true)})) or "omitted"
    hasBeforeFinish,    \* whether defineGraph was given a beforeFinish hook
    nodes,              \* the registry: own name -> registered flow, or NoFlow
    thrown,             \* what the last addNode/removeNode call threw (NoThrow: it returned)
    invs,               \* the invocations of the executor in this behaviour
    pc,                 \* per invocation: where the async executor body stands
    streamingCallback,  \* per invocation: whether the caller passed a streaming callback
    state,              \* per invocation: the local `state`
    currentNode,        \* per invocation: the local `currentNode`
    output,             \* per invocation: the value the executor returned, or NoResult
    error,              \* per invocation: the error the executor threw, or NoError
    entry,              \* history: what entrypoint(input) returned
    dispatched,         \* history: the streamFlow calls made, in order
    results,            \* history: the results the dispatched nodes resolved to, in order
    chunks,             \* history: the chunks passed to the streaming callback, in order
    bfCalls,            \* history: the beforeFinish calls made, in order
    streams,            \* history: per stream() iterated, the chunks it yielded and whether it ended
    raised,             \* history: the errors dispatched nodes raised, with the dispatch they belong to
    adapter             \* the OpenAI adapter: the last call of a conversion function and its outcome

config == <<stateSchema, outputSchema, hasBeforeFinish>>
registry == <<nodes, thrown>>
locals == <<pc, streamingCallback, state, currentNode, output, error>>
history == <<entry, dispatched, results, chunks, bfCalls, streams, raised>>
vars == <<adapter, config, registry, invs, locals, history>>

NoEntry == [state |-> UndefinedState, nextNode |-> ""]

\* No conversion function of the adapter has been called.
NoCall == [fn |-> "", input |-> "", outcome |-> "none", value |-> ""]

\* ------------------------------------------------------------------ schemas

\* Mutant of StateSchemaAccepts: without a state schema a `state` key is
\* still required.
StateSchemaAccepts_requiresState(s) ==
    IF stateSchema = "omitted" THEN s.tag # "undefined" ELSE s.tag \in {"count", "countExtra"}

\* config.stateSchema ?? z.any(), applied to the value of a `state` key.
StateSchemaAccepts(s) ==
    IF stateSchema = "omitted" THEN TRUE ELSE s.tag \in {"count", "countExtra"}

\* The `state` of parseResult.data: z.object keeps the keys it declares and
\* drops the others; z.any() hands the value back.
ParsedState(s) ==
    IF stateSchema = "count" /\ s.tag = "countExtra" THEN Count(s.count) ELSE s

\* StateReturnSchema(config.stateSchema ?? z.any()).safeParse(result).success:
\* z.object({state, nextNode: z.string()}); unknown keys are ignored.
IsContinuation(result) ==
    /\ result.kind = "object"
    /\ StateSchemaAccepts(result.state)
    /\ result.nextNode.type = "string"

\* (config.outputSchema ?? z.any()).safeParse(result).success
IsOutput(result) ==
    IF outputSchema = "omitted"
    THEN TRUE
    ELSE result.kind = "object" /\ result.done = "true"

\* ------------------------------------------------------------------ registry

\* The function every object inherits under an inherited key.
InheritedFunction == [name |-> "Object.prototype", id |-> 0]

\* nodes[name]: the own entry, or what the prototype chain of {} supplies.
Lookup(name) ==
    IF name \in DOMAIN nodes /\ nodes[name] # NoFlow THEN nodes[name]
    ELSE IF name \in InheritedNames THEN InheritedFunction
    ELSE NoFlow

\* if (nodes[name])
Exists(name) == Lookup(name) # NoFlow

\* name is a key of the registry itself, holding a flow.
Registered(name) == name \in DOMAIN nodes /\ nodes[name] # NoFlow

\* throw new Error(`Node ${flow.name} already exists`)
AlreadyExists(op, name) == [op |-> op, msg |-> "already exists", node |-> name]

\* Mutant of addNode: the flow is stored before the duplicate check is made.
addNode_storeFirst(flow) ==
    /\ nodes' = [n \in DOMAIN nodes |-> IF n = flow.name THEN flow ELSE nodes[n]]
    /\ thrown' = IF Exists(flow.name) THEN AlreadyExists("addNode", flow.name) ELSE NoThrow
    /\ UNCHANGED <<adapter, config, invs, locals, history>>

\* addNode(flow)
addNode(flow) ==
    /\ IF Exists(flow.name)
       THEN /\ thrown' = AlreadyExists("addNode", flow.name)
            /\ UNCHANGED nodes
       ELSE /\ nodes' = [nodes EXCEPT ![flow.name] = flow]
            /\ thrown' = NoThrow
    /\ UNCHANGED <<adapter, config, invs, locals, history>>

\* Mutant of removeNode: the guard is the other way round, a registered node
\* is deleted and an unregistered name refused.
removeNode_deletes(name) ==
    /\ IF ~Exists(name)
       THEN /\ thrown' = AlreadyExists("removeNode", name)
            /\ UNCHANGED nodes
       ELSE /\ nodes' = [n \in DOMAIN nodes |-> IF n = name THEN NoFlow ELSE nodes[n]]
            /\ thrown' = NoThrow
    /\ UNCHANGED <<adapter, config, invs, locals, history>>

\* removeNode(name)
removeNode(name) ==
    /\ IF Exists(name)
       THEN /\ thrown' = AlreadyExists("removeNode", name)
            /\ UNCHANGED nodes
       ELSE \* delete nodes[name], of a key that is not there
            /\ nodes' = [n \in DOMAIN nodes |-> IF n = name THEN NoFlow ELSE nodes[n]]
            /\ thrown' = NoThrow
    /\ UNCHANGED <<adapter, config, invs, locals, history>>

\* ------------------------------------------------------------------ executor

\* f with the entry of invocation i set to v.
Set(f, i, v) == [f EXCEPT ![i] = v]

\* The executor is invoked (with or without a streaming callback) and calls
\* entrypoint(input).
Invoke(i, cb) ==
    /\ pc[i] = "idle"
    /\ pc' = Set(pc, i, "entrypoint")
    /\ streamingCallback' = Set(streamingCallback, i, cb)
    /\ UNCHANGED <<adapter, config, registry, invs, state, currentNode, output, error, history>>

\* Mutant of EntrypointReturns: the entrypoint's state is validated against
\* the state schema before the loop is entered.
EntrypointReturns_validated(i, s0, n0) ==
    /\ pc[i] = "entrypoint"
    /\ state' = Set(state, i, s0)
    /\ currentNode' = Set(currentNode, i, n0)
    /\ entry' = Set(entry, i, [state |-> s0, nextNode |-> n0])
    /\ IF StateSchemaAccepts(s0)
       THEN pc' = Set(pc, i, "loop") /\ UNCHANGED error
       ELSE /\ pc' = Set(pc, i, "Failed")
            /\ error' = Set(error, i, Err("Invalid output", ""))
    /\ UNCHANGED <<adapter, config, registry, invs, streamingCallback, output,
                   dispatched, results, chunks, bfCalls, streams, raised>>

\* let { state, nextNode } = await entrypoint(input); currentNode = nextNode
EntrypointReturns(i, s0, n0) ==
    /\ pc[i] = "entrypoint"
    /\ state' = Set(state, i, s0)
    /\ currentNode' = Set(currentNode, i, n0)
    /\ entry' = Set(entry, i, [state |-> s0, nextNode |-> n0])
    /\ pc' = Set(pc, i, "loop")
    /\ UNCHANGED <<adapter, config, registry, invs, streamingCallback, output, error,
                   dispatched, results, chunks, bfCalls, streams, raised>>

\* Mutant of Fail: the error is recorded and the loop entered again.
Fail_resumes(i, e) ==
    /\ pc' = Set(pc, i, "loop")
    /\ error' = Set(error, i, e)

\* Leaves the executor body by a throw.
Fail(i, e) ==
    /\ pc' = Set(pc, i, "Failed")
    /\ error' = Set(error, i, e)

\* await entrypoint(input) rejects.
EntrypointThrows(i) ==
    /\ pc[i] = "entrypoint"
    /\ Fail(i, Err("entrypoint error", ""))
    /\ UNCHANGED <<adapter, config, registry, invs, streamingCallback, state, currentNode,
                   output, history>>

\* throw new Error(`Node ${currentNode} does not exist`)
UnknownNodeError(name) == Err("does not exist", name)

\* Mutant of StreamFlowCall: `state` is read from another invocation, as
\* when the local is declared outside the executor's body.
StreamFlowCall_otherState(i) ==
    [node |-> currentNode[i], flow |-> Lookup(currentNode[i]),
     input |-> state[CHOOSE j \in invs : j # i]]

\* Mutant of StreamFlowCall: the node is started without the traversal's
\* `state` as its input.
StreamFlowCall_staleInput(i) ==
    [node |-> currentNode[i], flow |-> Lookup(currentNode[i]), input |-> UndefinedState]

\* streamFlow(nodes[currentNode], state): the node, the flow and its input.
StreamFlowCall(i) ==
    [node |-> currentNode[i], flow |-> Lookup(currentNode[i]), input |-> state[i]]

\* Mutant of AwaitAfterDispatch: the chunk loop is skipped although a
\* streaming callback was passed.
AwaitAfterDispatch_noStream(i) == "output"

\* if (streamingCallback) for await (... of stream()) ...; await output()
AwaitAfterDispatch(i) == IF streamingCallback[i] THEN "stream" ELSE "output"

\* stream() has been called and has yielded nothing yet.
OpenStream == [chunks |-> <<>>, done |-> FALSE]

\* Mutant of LoopIteration: the loop gives up after three dispatches.
LoopIteration_limited(i) ==
    /\ pc[i] = "loop"
    /\ IF ~Exists(currentNode[i]) \/ Len(dispatched[i]) >= 3
       THEN /\ Fail(i, UnknownNodeError(currentNode[i]))
            /\ UNCHANGED <<dispatched, streams>>
       ELSE /\ dispatched' = Set(dispatched, i, Append(dispatched[i], StreamFlowCall(i)))
            /\ pc' = Set(pc, i, AwaitAfterDispatch(i))
            /\ streams' = Set(streams, i,
                    IF streamingCallback[i] THEN Append(streams[i], OpenStream)
                    ELSE streams[i])
            /\ UNCHANGED error
    /\ UNCHANGED <<adapter, config, registry, invs, streamingCallback, state, currentNode,
                   output, entry, results, chunks, bfCalls, raised>>

\* One pass through the head of the loop: the registry check, then
\* streamFlow(nodes[currentNode], state) and, with a streaming callback,
\* stream().  Under an inherited key the check passes and streamFlow is handed
\* a function that is no flow, which the host rejects with a TypeError.
LoopIteration(i) ==
    /\ pc[i] = "loop"
    /\ IF ~Exists(currentNode[i])
       THEN /\ Fail(i, UnknownNodeError(currentNode[i]))
            /\ UNCHANGED <<dispatched, streams>>
       ELSE IF Lookup(currentNode[i]) = InheritedFunction
       THEN /\ Fail(i, Err("TypeError", ""))
            /\ UNCHANGED <<dispatched, streams>>
       ELSE /\ dispatched' = Set(dispatched, i, Append(dispatched[i], StreamFlowCall(i)))
            /\ pc' = Set(pc, i, AwaitAfterDispatch(i))
            /\ streams' = Set(streams, i,
                    IF streamingCallback[i] THEN Append(streams[i], OpenStream)
                    ELSE streams[i])
            /\ UNCHANGED error
    /\ UNCHANGED <<adapter, config, registry, invs, streamingCallback, state, currentNode,
                   output, entry, results, chunks, bfCalls, raised>>

\* The head of the loop, within the model's bound on dispatches.
LoopHead(i) ==
    /\ Len(dispatched[i]) < MaxSteps
    /\ LoopIteration(i)

\* Mutant of Forward: a new chunk is put in front of those already delivered.
Forward_inFront(delivered, c) == <<c>> \o delivered

\* streamingCallback(chunk)
Forward(delivered, c) == Append(delivered, c)

\* One pass through the chunk loop: stream() yields c and the callback gets it.
StreamIteration(i, c) ==
    /\ pc[i] = "stream"
    /\ chunks' = Set(chunks, i, Forward(chunks[i], c))
    /\ streams' = Set(streams, i,
            [streams[i] EXCEPT ![Len(streams[i])].chunks = Append(@, c)])
    /\ UNCHANGED <<adapter, config, registry, invs, locals, entry, dispatched, results,
                   bfCalls, raised>>

\* for await (const chunk of stream()) streamingCallback(chunk)
StreamChunk(i, c) ==
    /\ Len(chunks[i]) < MaxChunks
    /\ StreamIteration(i, c)

\* Mutant of StreamEnd: after the chunk loop the result is not awaited and
\* the loop starts over.
StreamEnd_noAwait(i) ==
    /\ pc[i] = "stream"
    /\ pc' = Set(pc, i, "loop")
    /\ streams' = Set(streams, i, [streams[i] EXCEPT ![Len(streams[i])].done = TRUE])
    /\ UNCHANGED <<adapter, config, registry, invs, streamingCallback, state, currentNode,
                   output, error, entry, dispatched, results, chunks, bfCalls, raised>>

\* The node's chunk sequence ends; the executor goes on to await output().
StreamEnd(i) ==
    /\ pc[i] = "stream"
    /\ pc' = Set(pc, i, "output")
    /\ streams' = Set(streams, i, [streams[i] EXCEPT ![Len(streams[i])].done = TRUE])
    /\ UNCHANGED <<adapter, config, registry, invs, streamingCallback, state, currentNode,
                   output, error, entry, dispatched, results, chunks, bfCalls, raised>>

\* The errors a node is let to raise.
NodeErrors == {Err("node error", ""), Err("other node error", "")}

\* Mutant of NodeThrows: the chunks delivered so far are taken back.
NodeThrows_retracted(i, e) ==
    /\ pc[i] \in {"stream", "output"}
    /\ raised' = Set(raised, i, Append(raised[i], [step |-> Len(dispatched[i]), error |-> e]))
    /\ Fail(i, e)
    /\ chunks' = Set(chunks, i, <<>>)
    /\ UNCHANGED <<adapter, config, registry, invs, streamingCallback, state, currentNode,
                   output, entry, dispatched, results, bfCalls, streams>>

\* Mutant of NodeThrows: the node's error is caught and the node tried again.
NodeThrows_retried(i, e) ==
    /\ pc[i] \in {"stream", "output"}
    /\ raised' = Set(raised, i, Append(raised[i], [step |-> Len(dispatched[i]), error |-> e]))
    /\ pc' = Set(pc, i, "loop")
    /\ UNCHANGED <<adapter, config, registry, invs, streamingCallback, state, currentNode,
                   output, error, entry, dispatched, results, chunks, bfCalls, streams>>

\* The node's step raises e: the for await or the await output() rejects
\* with it, and nothing in the executor catches it.
NodeThrows(i, e) ==
    /\ pc[i] \in {"stream", "output"}
    /\ raised' = Set(raised, i, Append(raised[i], [step |-> Len(dispatched[i]), error |-> e]))
    /\ Fail(i, e)
    /\ UNCHANGED <<adapter, config, registry, invs, streamingCallback, state, currentNode,
                   output, entry, dispatched, results, chunks, bfCalls, streams>>

\* Mutant of Classify: the output test is made before the Continuation test.
Classify_outputFirst(result) ==
    IF IsOutput(result) THEN "finish"
    ELSE IF IsContinuation(result) THEN "continue"
    ELSE "invalid"

\* Mutant of Classify: a result of neither shape is finished with.
Classify_finishOnInvalid(result) ==
    IF IsContinuation(result) THEN "continue" ELSE "finish"

\* Mutant of BeforeFinishCall: the hook is handed the entrypoint's state.
BeforeFinishCall_entryState(i, result) ==
    [state |-> entry[i].state, output |-> result, outcome |-> "pending"]

\* Mutant of Classify: the output test is left out.
Classify_noOutputTest(result) ==
    IF IsContinuation(result) THEN "continue" ELSE "invalid"

\* The two safeParse tests in the order the loop body makes them.
Classify(result) ==
    IF IsContinuation(result) THEN "continue"
    ELSE IF IsOutput(result) THEN "finish"
    ELSE "invalid"

\* Mutant of AdoptedState: the state of a Continuation is not adopted.
AdoptedState_kept(i, result) == state[i]

\* state = result.state
AdoptedState(i, result) == result.state

\* Mutant of AdoptedNode: currentNode is not updated on a Continuation.
AdoptedNode_kept(i, result) == currentNode[i]

\* currentNode = result.nextNode
AdoptedNode(i, result) == result.nextNode.name

\* Mutant of BeforeFinishCall: the hook is handed the result's own `state` key.
BeforeFinishCall_resultState(i, result) ==
    [state |-> result.state, output |-> result, outcome |-> "pending"]

\* beforeFinish?.(state, result): the call, and how it has ended so far.
BeforeFinishCall(i, result) ==
    [state |-> state[i], output |-> result, outcome |-> "pending"]

\* Mutant of Returned: the parsed data is returned, which keeps only the keys
\* the output schema declares.
Returned_parsed(result) ==
    IF outputSchema = "done"
    THEN Obj(UndefinedState, UndefinedNext, "true")
    ELSE result

\* return result
Returned(result) == result

\* Mutant of InvalidOutputError: the message names the entrypoint's leftover
\* `nextNode` instead of `currentNode`.
InvalidOutputError_stale(i) == Err("Invalid output", entry[i].nextNode)

\* throw new Error(`Invalid output: Output of node ${currentNode} does not
\* satisfy StateSchema or OutputSchema`)
InvalidOutputError(i) == Err("Invalid output", currentNode[i])

\* const result = await output(), and the rest of the loop body: the
\* Continuation test first, then the output test, beforeFinish?.(state, result)
\* and the return, or the throw.
NodeReturns(i, result) ==
    /\ pc[i] = "output"
    /\ results' = Set(results, i, Append(results[i], result))
    /\ IF Classify(result) = "continue"
       THEN /\ state' = Set(state, i, AdoptedState(i, result))
            /\ currentNode' = Set(currentNode, i, AdoptedNode(i, result))
            /\ pc' = Set(pc, i, "loop")
            /\ UNCHANGED <<output, error, bfCalls>>
       ELSE IF Classify(result) = "finish"
       THEN IF hasBeforeFinish
            THEN /\ bfCalls' = Set(bfCalls, i, Append(bfCalls[i], BeforeFinishCall(i, result)))
                 /\ pc' = Set(pc, i, "beforeFinish")
                 /\ UNCHANGED <<state, currentNode, output, error>>
            ELSE /\ pc' = Set(pc, i, "Finished")
                 /\ output' = Set(output, i, Returned(result))
                 /\ UNCHANGED <<state, currentNode, error, bfCalls>>
       ELSE /\ Fail(i, InvalidOutputError(i))
            /\ UNCHANGED <<state, currentNode, output, bfCalls>>
    /\ UNCHANGED <<adapter, config, registry, invs, streamingCallback, entry, dispatched, chunks,
                   streams, raised>>

\* await beforeFinish(state, result) resolves; return result
BeforeFinishReturns(i) ==
    /\ pc[i] = "beforeFinish"
    /\ pc' = Set(pc, i, "Finished")
    /\ output' = Set(output, i, Returned(results[i][Len(results[i])]))
    /\ bfCalls' = Set(bfCalls, i, [bfCalls[i] EXCEPT ![Len(bfCalls[i])].outcome = "returned"])
    /\ UNCHANGED <<adapter, config, registry, invs, streamingCallback, state, currentNode,
                   error, entry, dispatched, results, chunks, streams, raised>>

\* Mutant of BeforeFinishThrows: the hook's error is caught and the result
\* returned all the same.
BeforeFinishThrows_swallowed(i) ==
    /\ pc[i] = "beforeFinish"
    /\ pc' = Set(pc, i, "Finished")
    /\ output' = Set(output, i, Returned(results[i][Len(results[i])]))
    /\ bfCalls' = Set(bfCalls, i, [bfCalls[i] EXCEPT ![Len(bfCalls[i])].outcome = "threw"])
    /\ UNCHANGED <<adapter, config, registry, invs, streamingCallback, state, currentNode,
                   error, entry, dispatched, results, chunks, streams, raised>>

\* await beforeFinish(state, result) rejects.
BeforeFinishThrows(i) ==
    /\ pc[i] = "beforeFinish"
    /\ Fail(i, Err("beforeFinish error", ""))
    /\ bfCalls' = Set(bfCalls, i, [bfCalls[i] EXCEPT ![Len(bfCalls[i])].outcome = "threw"])
    /\ UNCHANGED <<adapter, config, registry, invs, streamingCallback, state, currentNode,
                   output, entry, dispatched, results, chunks, streams, raised>>

\* ------------------------------------------------------------------ specification

\* No invocation of the executor has started, no adapter function was called.
NotInvoked ==
    /\ pc = [i \in invs |-> "idle"]
    /\ streamingCallback = [i \in invs |-> FALSE]
    /\ state = [i \in invs |-> UndefinedState]
    /\ currentNode = [i \in invs |-> ""]
    /\ output = [i \in invs |-> NoResult]
    /\ error = [i \in invs |-> NoError]
    /\ entry = [i \in invs |-> NoEntry]
    /\ dispatched = [i \in invs |-> <<>>]
    /\ results = [i \in invs |-> <<>>]
    /\ chunks = [i \in invs |-> <<>>]
    /\ bfCalls = [i \in invs |-> <<>>]
    /\ streams = [i \in invs |-> <<>>]
    /\ raised = [i \in invs |-> <<>>]
    /\ adapter = NoCall

\* defineGraph(config, entrypoint, beforeFinish?) has returned: const nodes = {}.
Init ==
    /\ stateSchema \in {"count", "omitted"}
    /\ outputSchema \in {"done", "omitted"}
    /\ hasBeforeFinish \in BOOLEAN
    /\ nodes = [n \in OwnNames |-> NoFlow]
    /\ thrown = NoThrow
    /\ invs = {1}
    /\ NotInvoked

Next ==
    \/ \E f \in Flows : addNode(f)
    \/ \E n \in Names : removeNode(n)
    \/ \E i \in invs, cb \in BOOLEAN : Invoke(i, cb)
    \/ \E i \in invs, s0 \in EntryStates, n0 \in Names : EntrypointReturns(i, s0, n0)
    \/ \E i \in invs : EntrypointThrows(i)
    \/ \E i \in invs : LoopHead(i)
    \/ \E i \in invs, c \in Chunks : StreamChunk(i, c)
    \/ \E i \in invs : StreamEnd(i)
    \/ \E i \in invs, e \in NodeErrors : NodeThrows(i, e)
    \/ \E i \in invs, r \in ResultVals : NodeReturns(i, r)
    \/ \E i \in invs : BeforeFinishReturns(i)
    \/ \E i \in invs : BeforeFinishThrows(i)

Spec == Init /\ [][Next]_vars

\* ------------------------------------------------------------------ the counter scenario

\* Most dispatches the counter scenario is let to make (it needs four).
CounterLimit == 6

\* The node incr, as registered.
IncrFlow == [name |-> "incr", id |-> 1]

\* What incr returns for the state it is started with:
\* {state: {count: count + 1}, nextNode: "incr"} while count < 3, else {done: true}.
IncrNode(s) ==
    IF s.count < 3
    THEN Obj(Count(s.count + 1), Str("incr"), "absent")
    ELSE Obj(UndefinedState, UndefinedNext, "true")

\* defineGraph({stateSchema: {count: number}, outputSchema: {done: true}},
\* entrypoint) has returned and addNode(incr) was called.
InitCounter ==
    /\ stateSchema = "count"
    /\ outputSchema = "done"
    /\ hasBeforeFinish = FALSE
    /\ nodes = [n \in OwnNames \cup {"incr"} |-> IF n = "incr" THEN IncrFlow ELSE NoFlow]
    /\ thrown = NoThrow
    /\ invs = {1}
    /\ NotInvoked

\* The executor's steps with the scenario's entrypoint and node; other
\* registration calls may still be made.
NextCounter ==
    \/ \E f \in Flows : addNode(f)
    \/ \E n \in Names \cup {"incr"} : removeNode(n)
    \/ \E i \in invs, cb \in BOOLEAN : Invoke(i, cb)
    \/ \E i \in invs : EntrypointReturns(i, Count(0), "incr")
    \/ \E i \in invs : Len(dispatched[i]) < CounterLimit /\ LoopIteration(i)
    \/ \E i \in invs, c \in Chunks : StreamChunk(i, c)
    \/ \E i \in invs : StreamEnd(i)
    \/ \E i \in invs :
          /\ pc[i] = "output"
          /\ NodeReturns(i, IncrNode(dispatched[i][Len(dispatched[i])].input))

SpecCounter == InitCounter /\ [][NextCounter]_vars

\* ------------------------------------------------------------------ traversals of a fixed graph

\* Most chunks one streamed traversal forwards.
MaxStreamChunks == 3

\* The chunks a node is let to emit in a streamed traversal.
StreamChunkVals == {"x", "y"}

\* The results a node is let to return there: those of ResultVals and
\* {state: {count: 1, extra: 1}, nextNode: "b"}.
TraversalResults == ResultVals \cup {Obj(CountExtra(1), Str("b"), "absent")}

\* defineGraph({stateSchema, outputSchema}, entrypoint) has returned and
\* addNode was called for a flow named a and a flow named b.
InitTraversal ==
    /\ stateSchema = "count"
    /\ outputSchema = "done"
    /\ hasBeforeFinish = FALSE
    /\ nodes = [n \in OwnNames |-> [name |-> n, id |-> 1]]
    /\ thrown = NoThrow
    /\ invs = {1}
    /\ NotInvoked

\* The executor's steps over that registry, with nodes that emit up to
\* MaxStreamChunks chunks between them.
NextTraversal ==
    \/ \E i \in invs, cb \in BOOLEAN : Invoke(i, cb)
    \/ \E i \in invs, n0 \in OwnNames : EntrypointReturns(i, Count(0), n0)
    \/ \E i \in invs : LoopHead(i)
    \/ \E i \in invs, c \in StreamChunkVals :
          Len(chunks[i]) < MaxStreamChunks /\ StreamIteration(i, c)
    \/ \E i \in invs : StreamEnd(i)
    \/ \E i \in invs, e \in NodeErrors : NodeThrows(i, e)
    \/ \E i \in invs, r \in TraversalResults : NodeReturns(i, r)

SpecTraversal == InitTraversal /\ [][NextTraversal]_vars

\* ------------------------------------------------------------------ the OpenAI adapter

\* Most messages in a request handed to toOpenAiRequestBody.
MaxMessages == 1

\* The roles of the host (type Role), and values that are none of them.
HostRoles == {"user", "model", "system", "tool"}
OtherRoles == {"unknown", "assistant"}

\* How a call of a conversion function ended.
ReturnedValue(v) == [outcome |-> "returned", value |-> v]
ThrewError(m, a) == [outcome |-> "threw", value |-> [msg |-> m, arg |-> a]]

\* Mutant of toOpenAIRole: a role that is none of the host's is passed through.
toOpenAIRole_passThrough(role) ==
    ReturnedValue(IF role = "model" THEN "assistant" ELSE role)

\* toOpenAIRole(role)
toOpenAIRole(role) ==
    IF role = "user" THEN ReturnedValue("user")
    ELSE IF role = "model" THEN ReturnedValue("assistant")
    ELSE IF role = "system" THEN ReturnedValue("system")
    ELSE IF role = "tool" THEN ReturnedValue("tool")
    ELSE ThrewError("role doesn't map to an OpenAI role.", role)

\* The models toOpenAiRequestBody knows, and among them those whose request
\* body takes response_format from the requested output format.
ResponseFormatModels == {"gpt-3.5-turbo", "gpt-4-turbo", "gpt-4o"}
NoResponseFormatModels == {"gpt-4", "gpt-4-vision"}
Gpt41Models == {"gpt-4.1", "gpt-4.1-mini", "gpt-4.1-nano"}
SupportedModels == ResponseFormatModels \cup NoResponseFormatModels \cup Gpt41Models
ModelNames == SupportedModels \cup {"unknown-model"}

\* request.output?.format: text, json, media, or no output requested.
Formats == {"absent", "text", "json", "media"}

\* Sequences of host roles of length at most n: the roles of request.messages.
RECURSIVE RoleSeqs(_)
RoleSeqs(n) ==
    IF n = 0 THEN {<<>>}
    ELSE RoleSeqs(n - 1)
            \cup {Append(q, r) : q \in {p \in RoleSeqs(n - 1) : Len(p) = n - 1}, r \in HostRoles}

\* A generate request, as far as toOpenAiRequestBody reads it here: the roles
\* of request.messages and request.output?.format.
Request(messages, format) == [messages |-> messages, format |-> format]

\* toOpenAiMessages(request.messages), as far as roles go.
toOpenAiMessages(messages) ==
    [k \in 1..Len(messages) |-> toOpenAIRole(messages[k]).value]

\* The request body: the model, the converted messages, and response_format
\* ("absent": the body has no such key).
Body(modelName, request, rf) ==
    ReturnedValue([messages |-> toOpenAiMessages(request.messages),
                   model |-> modelName,
                   response_format |-> rf])

\* Mutant of ResponseFormat: format json is sent as {type: 'text'}.
ResponseFormat_textOnly(format) == "text"

\* response_format for a requested output format: {type: 'json_object'} for
\* json, {type: 'text'} for text.
ResponseFormat(format) == IF format = "json" THEN "json_object" ELSE "text"

MediaError == ThrewError("media format is not supported for GPT models currently", "")

\* toOpenAiRequestBody(modelName, request): the outcomes the call can have.
\* Where the tests of the adapter do not fix the outcome (format media with a
\* model that takes no response_format, any format with a gpt-4.1 model) both
\* outcomes are kept.
toOpenAiRequestBody(modelName, request) ==
    IF modelName \notin SupportedModels
    THEN {ThrewError("Unsupported model", modelName)}
    ELSE IF request.format = "absent"
    THEN {Body(modelName, request, "absent")}
    ELSE IF modelName \in ResponseFormatModels
    THEN IF request.format = "media"
         THEN {MediaError}
         ELSE {Body(modelName, request, ResponseFormat(request.format))}
    ELSE IF modelName \in NoResponseFormatModels
    THEN IF request.format = "media"
         THEN {MediaError, Body(modelName, request, "absent")}
         ELSE {Body(modelName, request, "absent")}
    ELSE IF request.format = "media"
         THEN {MediaError, Body(modelName, request, "absent")}
         ELSE {Body(modelName, request, "absent"),
               Body(modelName, request, ResponseFormat(request.format))}

\* A caller calls toOpenAIRole(role).
CallToOpenAIRole(role) ==
    /\ adapter' = [fn |-> "toOpenAIRole", input |-> role,
                   outcome |-> toOpenAIRole(role).outcome,
                   value |-> toOpenAIRole(role).value]
    /\ UNCHANGED <<config, registry, invs, locals, history>>

\* A caller calls toOpenAiRequestBody(modelName, request).
CallToOpenAiRequestBody(modelName, request) ==
    \E o \in toOpenAiRequestBody(modelName, request) :
        /\ adapter' = [fn |-> "toOpenAiRequestBody",
                       input |-> [model |-> modelName, request |-> request],
                       outcome |-> o.outcome, value |-> o.value]
        /\ UNCHANGED <<config, registry, invs, locals, history>>

\* The adapter's module is loaded; no graph is in use.
InitOpenAI ==
    /\ stateSchema = "omitted"
    /\ outputSchema = "omitted"
    /\ hasBeforeFinish = FALSE
    /\ nodes = [n \in OwnNames |-> NoFlow]
    /\ thrown = NoThrow
    /\ invs = {1}
    /\ NotInvoked

NextOpenAI ==
    \/ \E role \in HostRoles \cup OtherRoles : CallToOpenAIRole(role)
    \/ \E m \in ModelNames, q \in RoleSeqs(MaxMessages), f \in Formats :
          CallToOpenAiRequestBody(m, Request(q, f))

SpecOpenAI == InitOpenAI /\ [][NextOpenAI]_vars

\* ------------------------------------------------------------------ concurrent invocations

\* Names an entrypoint or a node may give; "c" is never registered.
ScriptedNames == {"a", "b", "c"}

\* The error a scripted node raises.
ScriptedError == Err("node error", "")

\* Nodes whose behaviour is a function of their input, as flows are meant to
\* be.  The flow a: for {count: n} with n < 2 it returns
\* {state: {count: n + 1}, nextNode: "b"}, for a larger count {done: true},
\* for any other input a string.  The flow b: for {count: n} it returns
\* {state: {count: n + 1}, nextNode: "a"}, and raises for any other input.
ScriptedRaises(name, s) == name = "b" /\ s.tag # "count"

ScriptedResult(name, s) ==
    IF s.tag # "count" THEN Primitive
    ELSE IF name = "b" THEN Obj(Count(s.count + 1), Str("a"), "absent")
    ELSE IF s.count < 2 THEN Obj(Count(s.count + 1), Str("b"), "absent")
    ELSE Obj(UndefinedState, UndefinedNext, "true")

\* The chunks a scripted node emits before its result: a emits x, b emits y, x.
ScriptedChunks(name) == IF name = "a" THEN <<"x">> ELSE <<"y", "x">>

\* The dispatch invocation i is awaiting, and the chunks read from it so far.
InFlight(i) == dispatched[i][Len(dispatched[i])]
Emitted(i) == streams[i][Len(streams[i])].chunks

\* Two invocations of the executor of one graph, with a and b registered.
InitConcurrent ==
    /\ stateSchema = "count"
    /\ outputSchema = "done"
    /\ hasBeforeFinish \in BOOLEAN
    /\ nodes = [n \in OwnNames |-> [name |-> n, id |-> 1]]
    /\ thrown = NoThrow
    /\ invs = {1, 2}
    /\ NotInvoked

\* The steps of the two invocations, in any interleaving; the registry is
\* left alone.
NextConcurrent ==
    \/ \E i \in invs, cb \in BOOLEAN : Invoke(i, cb)
    \/ \E i \in invs, s0 \in EntryStates, n0 \in ScriptedNames : EntrypointReturns(i, s0, n0)
    \/ \E i \in invs : LoopIteration(i)
    \/ \E i \in invs, c \in StreamChunkVals :
          /\ pc[i] = "stream"
          /\ Len(Emitted(i)) < Len(ScriptedChunks(InFlight(i).node))
          /\ c = ScriptedChunks(InFlight(i).node)[Len(Emitted(i)) + 1]
          /\ StreamIteration(i, c)
    \/ \E i \in invs :
          /\ pc[i] = "stream"
          /\ ~ScriptedRaises(InFlight(i).node, InFlight(i).input)
          /\ Emitted(i) = ScriptedChunks(InFlight(i).node)
          /\ StreamEnd(i)
    \/ \E i \in invs :
          /\ pc[i] \in {"stream", "output"}
          /\ ScriptedRaises(InFlight(i).node, InFlight(i).input)
          /\ NodeThrows(i, ScriptedError)
    \/ \E i \in invs :
          /\ pc[i] = "output"
          /\ ~ScriptedRaises(InFlight(i).node, InFlight(i).input)
          /\ NodeReturns(i, ScriptedResult(InFlight(i).node, InFlight(i).input))
    \/ \E i \in invs : BeforeFinishReturns(i)

SpecConcurrent == InitConcurrent /\ [][NextConcurrent]_vars

\* ------------------------------------------------------------------ cyclic graphs

\* Most dispatches a traversal of a cyclic graph is followed for.
CycleLimit == 5

\* What the nodes of a cyclic graph return: always a Continuation, naming
\* the node itself or the other node.
CycleResults == {Obj(Count(1), Str(n), "absent") : n \in OwnNames}

\* defineGraph has returned and addNode was called for a flow named a and a
\* flow named b.
InitCycle ==
    /\ stateSchema \in {"count", "omitted"}
    /\ outputSchema \in {"done", "omitted"}
    /\ hasBeforeFinish \in BOOLEAN
    /\ nodes = [n \in OwnNames |-> [name |-> n, id |-> 1]]
    /\ thrown = NoThrow
    /\ invs = {1}
    /\ NotInvoked

\* The executor's steps over nodes that never terminate the traversal,
\* followed up to CycleLimit dispatches.
NextCycle ==
    \/ \E i \in invs, cb \in BOOLEAN : Invoke(i, cb)
    \/ \E i \in invs, n0 \in OwnNames : EntrypointReturns(i, Count(0), n0)
    \/ \E i \in invs : Len(dispatched[i]) < CycleLimit /\ LoopIteration(i)
    \/ \E i \in invs, c \in Chunks : StreamChunk(i, c)
    \/ \E i \in invs : StreamEnd(i)
    \/ \E i \in invs, r \in CycleResults : NodeReturns(i, r)

SpecCycle == InitCycle /\ [][NextCycle]_vars

\* ------------------------------------------------------------------ claims

Last(seq) == seq[Len(seq)]

\* C1: when entrypoint(I) yields {state: s0, nextNode: n0} and n0 is
\* registered, the first node the executor dispatches is n0, with input s0,
\* and nothing is dispatched before it: the first streamFlow call of every
\* invocation is (n0, s0), and the step the executor takes at the head of the
\* loop with nothing dispatched yet and n0 registered is that call, to the
\* flow registered under n0.
C1_FirstDispatch ==
    /\ [](\A i \in invs :
            /\ dispatched[i] # <<>> =>
                 /\ dispatched[i][1].node = entry[i].nextNode
                 /\ dispatched[i][1].input = entry[i].state
            /\ pc[i] \in {"idle", "entrypoint"} => dispatched[i] = <<>>)
    /\ [][\A i \in invs :
            (/\ pc[i] = "loop"
             /\ dispatched[i] = <<>>
             /\ Registered(entry[i].nextNode)
             /\ pc'[i] # pc[i])
            => dispatched'[i] = <<[node |-> entry[i].nextNode,
                                   flow |-> nodes[entry[i].nextNode],
                                   input |-> entry[i].state]>>]_vars

\* C1 witness: a first node is in flight, dispatched with a state the
\* declared stateSchema would not accept.
C1_Witness ==
    \E i \in invs :
        /\ Len(dispatched[i]) = 1
        /\ pc[i] = "output"
        /\ stateSchema = "count"
        /\ entry[i] = [state |-> OtherState, nextNode |-> "b"]

\* C2: the k-th dispatched node is the nextNode returned by step k-1 (the
\* entrypoint for k = 1, the (k-1)-th dispatched node otherwise), and every
\* dispatch but the last has resolved to exactly one result: nothing is
\* skipped, repeated or reordered.
C2_DispatchChain ==
    \A i \in invs :
        /\ Len(results[i]) <= Len(dispatched[i])
        /\ Len(dispatched[i]) <= Len(results[i]) + 1
        /\ \A k \in 1..Len(dispatched[i]) :
              IF k = 1
              THEN dispatched[i][k].node = entry[i].nextNode
              ELSE /\ results[i][k - 1].nextNode.type = "string"
                   /\ dispatched[i][k].node = results[i][k - 1].nextNode.name

\* C2 witness: two different nodes were dispatched one after the other.
C2_Witness ==
    \E i \in invs :
        /\ Len(dispatched[i]) = 2
        /\ dispatched[i][1].node = "a"
        /\ dispatched[i][2].node = "b"

\* C3 as stated: once a node's result validates against outputShape but not
\* against the Continuation shape, the invocation resolves to exactly that
\* value (it never fails) and no further node is dispatched.
C3_Original ==
    \A i \in invs :
        (/\ results[i] # <<>>
         /\ IsOutput(Last(results[i]))
         /\ ~IsContinuation(Last(results[i])))
        => /\ Len(dispatched[i]) = Len(results[i])
           /\ pc[i] \in {"beforeFinish", "Finished"}
           /\ pc[i] = "Finished" => output[i] = Last(results[i])

\* C3 as amended: once a node's result validates against outputShape but not
\* against the Continuation shape, no further node is dispatched, and the
\* invocation resolves to exactly that value unless beforeFinish raises, in
\* which case it fails with the hook's error.
C3_Terminal ==
    \A i \in invs :
        (/\ results[i] # <<>>
         /\ IsOutput(Last(results[i]))
         /\ ~IsContinuation(Last(results[i])))
        => /\ Len(dispatched[i]) = Len(results[i])
           /\ pc[i] \in {"beforeFinish", "Finished", "Failed"}
           /\ pc[i] = "Finished" => output[i] = Last(results[i])
           /\ pc[i] = "Failed" =>
                /\ hasBeforeFinish
                /\ error[i] = Err("beforeFinish error", "")
                /\ Last(bfCalls[i]).outcome = "threw"

\* C3 witness: the second node returned {nextNode: "b", done: true} under
\* declared state and output schemas, and the invocation resolved to it.
C3_Witness ==
    \E i \in invs :
        /\ stateSchema = "count"
        /\ outputSchema = "done"
        /\ Len(results[i]) = 2
        /\ pc[i] = "Finished"
        /\ output[i] = Obj(UndefinedState, Str("b"), "true")

\* C4: a result that validates against the Continuation shape is never
\* treated as Terminal, whether or not it also validates against outputShape:
\* it is not returned, beforeFinish is not called with it and the invocation
\* does not finish on it.  The executor adopts its state and goes to the
\* nextNode it names: that is the next node looked up, the next node
\* dispatched, and the step at the head of the loop dispatches it, with the
\* adopted state, whenever it is registered.
C4_ContinuationPrecedence ==
    /\ [](\A i \in invs :
            /\ \A k \in 1..Len(results[i]) :
                  IsContinuation(results[i][k]) =>
                     /\ k = Len(results[i]) =>
                          /\ pc[i] \notin {"beforeFinish", "Finished"}
                          /\ pc[i] = "loop" =>
                               /\ currentNode[i] = results[i][k].nextNode.name
                               /\ state[i] = results[i][k].state
                          /\ error[i].msg \in {"does not exist", "Invalid output"} =>
                               error[i] = Err("does not exist", results[i][k].nextNode.name)
                     /\ k < Len(dispatched[i]) =>
                          /\ dispatched[i][k + 1].node = results[i][k].nextNode.name
                          /\ dispatched[i][k + 1].input = results[i][k].state
            /\ \A j \in 1..Len(bfCalls[i]) : ~IsContinuation(bfCalls[i][j].output)
            /\ output[i] # NoResult => ~IsContinuation(output[i]))
    /\ [][\A i \in invs :
            (/\ pc[i] = "loop"
             /\ results[i] # <<>>
             /\ Registered(currentNode[i])
             /\ pc'[i] # pc[i])
            => dispatched'[i] = Append(dispatched[i],
                    [node |-> Last(results[i]).nextNode.name,
                     flow |-> nodes[Last(results[i]).nextNode.name],
                     input |-> Last(results[i]).state])]_vars

\* C4 witness: under a declared output schema, a result matching both shapes
\* was followed by the dispatch of the node it names.
C4_Witness ==
    \E i \in invs :
        /\ outputSchema = "done"
        /\ Len(dispatched[i]) = 2
        /\ IsContinuation(results[i][1])
        /\ IsOutput(results[i][1])
        /\ dispatched[i][2].node = results[i][1].nextNode.name

\* C5: whenever the current nextNode names no registered node, the step the
\* executor takes at the head of the loop fails the invocation with the
\* unknown-node error for that name and dispatches nothing; an invocation that
\* failed so has dispatched nothing since and has never called beforeFinish.
C5_UnknownNode ==
    /\ [][\A i \in invs :
            (/\ pc[i] = "loop"
             /\ ~Registered(currentNode[i])
             /\ pc'[i] # pc[i])
            => /\ pc'[i] = "Failed"
               /\ error'[i] = Err("does not exist", currentNode[i])
               /\ dispatched'[i] = dispatched[i]
               /\ bfCalls'[i] = <<>>]_vars
    /\ [](\A i \in invs :
            error[i].msg = "does not exist" =>
                /\ pc[i] = "Failed"
                /\ bfCalls[i] = <<>>
                /\ Len(dispatched[i]) = Len(results[i]))

\* C6: beforeFinish is called at most once per invocation and only when it
\* was provided; while it runs nothing has been returned yet and its output
\* argument is the accepted Terminal result; an invocation that returned an
\* output has called it exactly once, with the traversal's current state (the
\* input of the last dispatched node) and the very value returned.
C6_BeforeFinishOnce ==
    \A i \in invs :
        /\ Len(bfCalls[i]) <= 1
        /\ ~hasBeforeFinish => bfCalls[i] = <<>>
        /\ bfCalls[i] # <<>> => pc[i] \in {"beforeFinish", "Finished", "Failed"}
        /\ pc[i] = "beforeFinish" =>
              /\ output[i] = NoResult
              /\ Len(bfCalls[i]) = 1
              /\ bfCalls[i][1].output = Last(results[i])
              /\ IsOutput(bfCalls[i][1].output)
        /\ (pc[i] = "Finished" /\ hasBeforeFinish) =>
              /\ Len(bfCalls[i]) = 1
              /\ bfCalls[i][1].outcome = "returned"
              /\ bfCalls[i][1].output = output[i]
              /\ bfCalls[i][1].state = state[i]
              /\ bfCalls[i][1].state = Last(dispatched[i]).input

\* C6 witness: an invocation with a hook returned {done: true} after a
\* Continuation had replaced the entrypoint's state.
C6_Witness ==
    \E i \in invs :
        /\ hasBeforeFinish
        /\ pc[i] = "Finished"
        /\ Len(dispatched[i]) = 2
        /\ entry[i].state # state[i]
        /\ output[i] = Obj(UndefinedState, UndefinedNext, "true")

\* C7: once beforeFinish has raised, the invocation has failed with the
\* hook's error, the accepted Terminal result is not returned, and no node
\* has been dispatched after the one that produced it.
C7_BeforeFinishRaises ==
    \A i \in invs :
        (bfCalls[i] # <<>> /\ Last(bfCalls[i]).outcome = "threw")
        => /\ pc[i] = "Failed"
           /\ error[i] = Err("beforeFinish error", "")
           /\ output[i] = NoResult
           /\ Len(dispatched[i]) = Len(results[i])

\* C7 witness: the hook raised on an accepted Terminal result.
C7_Witness ==
    \E i \in invs :
        /\ bfCalls[i] # <<>>
        /\ Last(bfCalls[i]).outcome = "threw"
        /\ IsOutput(Last(results[i]))

\* C8: addNode with a flow whose name is already registered throws and leaves
\* the registry as it was: every name maps to the flow it mapped to before.
C8_DuplicateAdd ==
    [][\A f \in Flows :
          (addNode(f) /\ Registered(f.name))
          => /\ thrown' = AlreadyExists("addNode", f.name)
             /\ nodes' = nodes]_vars

\* C8 witness: addNode threw for "a" while both names are registered, "a"
\* still with its first flow.
C8_Witness ==
    /\ thrown = AlreadyExists("addNode", "a")
    /\ nodes["a"] = [name |-> "a", id |-> 1]
    /\ Registered("b")

\* C9: removeNode(name) throws and leaves the registry unchanged when name is
\* registered, and returns without error and without changing the registry
\* when name is not registered.
C9_RemoveNode ==
    [][\A n \in Names :
          removeNode(n)
          => /\ nodes' = nodes
             /\ Registered(n) => thrown' = AlreadyExists("removeNode", n)
             /\ ~Registered(n) => thrown' = NoThrow]_vars

\* C10: once a node's result validates against neither shape, the invocation
\* has failed with the invalid-output error naming the node that produced the
\* result (the last one dispatched), and no further node is dispatched.
C10_InvalidOutput ==
    \A i \in invs :
        (/\ results[i] # <<>>
         /\ ~IsContinuation(Last(results[i]))
         /\ ~IsOutput(Last(results[i])))
        => /\ pc[i] = "Failed"
           /\ error[i] = Err("Invalid output", Last(dispatched[i]).node)
           /\ Len(dispatched[i]) = Len(results[i])

\* C10 witness: the second node, not the one the entrypoint named, returned
\* {foo: 1}.
C10_Witness ==
    \E i \in invs :
        /\ Len(dispatched[i]) = 2
        /\ dispatched[i][1].node # dispatched[i][2].node
        /\ Last(results[i]) = Obj(UndefinedState, UndefinedNext, "absent")
        /\ error[i].msg = "Invalid output"

\* C11: in the counter scenario the invocation dispatches incr exactly four
\* times, with inputs {count: 0}, {count: 1}, {count: 2}, {count: 3} in that
\* order, never fails, and returns {done: true}: every dispatch made so far is
\* the next of those four, the loop is only ever entered with fewer than four
\* made, and the invocation has finished only after the fourth, with {done: true}.
C11_Counter ==
    \A i \in invs :
        /\ Len(dispatched[i]) <= 4
        /\ \A k \in 1..Len(dispatched[i]) :
              dispatched[i][k] = [node |-> "incr", flow |-> IncrFlow, input |-> Count(k - 1)]
        /\ pc[i] # "Failed"
        /\ pc[i] = "loop" => Len(dispatched[i]) < 4
        /\ pc[i] = "Finished" =>
              /\ Len(dispatched[i]) = 4
              /\ output[i] = Obj(UndefinedState, UndefinedNext, "true")
        /\ pc[i] # "Finished" => output[i] = NoResult

\* C11 witness: the scenario's invocation has returned after four dispatches.
C11_Witness ==
    \E i \in invs :
        /\ pc[i] = "Finished"
        /\ Len(dispatched[i]) = 4
        /\ Len(results[i]) = 4

\* The chunk sequences of the streams in seq, one after the other.
RECURSIVE Concatenated(_)
Concatenated(seq) ==
    IF seq = <<>> THEN <<>>
    ELSE Concatenated(SubSeq(seq, 1, Len(seq) - 1)) \o seq[Len(seq)].chunks

\* C12: with a streaming callback, the chunks delivered to the caller are the
\* concatenation, in dispatch order, of the chunk sequences of the dispatched
\* nodes (one stream per dispatch, each in the order its node emitted it);
\* without a callback nothing is delivered.
C12_ChunkOrder ==
    \A i \in invs :
        IF streamingCallback[i]
        THEN /\ Len(streams[i]) = Len(dispatched[i])
             /\ chunks[i] = Concatenated(streams[i])
        ELSE chunks[i] = <<>>

\* C12 witness: two nodes were dispatched, the first emitted x then y, the
\* second y, and all three reached the callback.
C12_Witness ==
    \E i \in invs :
        /\ streamingCallback[i]
        /\ Len(streams[i]) = 2
        /\ streams[i][1].chunks = <<"x", "y">>
        /\ streams[i][2].chunks = <<"y">>
        /\ Len(chunks[i]) = 3

\* C13: at most one node is in flight: the dispatches made exceed the results
\* resolved by at most one, so node k+1 is dispatched only after node k's
\* result was resolved; and with a streaming callback the chunk sequence of a
\* node has ended before its result is resolved or a later node is dispatched.
C13_OneInFlight ==
    \A i \in invs :
        /\ Len(results[i]) <= Len(dispatched[i])
        /\ Len(dispatched[i]) <= Len(results[i]) + 1
        /\ pc[i] = "loop" => Len(results[i]) = Len(dispatched[i])
        /\ streamingCallback[i] =>
              /\ Len(streams[i]) = Len(dispatched[i])
              /\ \A k \in 1..Len(streams[i]) :
                    (k < Len(dispatched[i]) \/ k <= Len(results[i])) => streams[i][k].done

\* C13 witness: a second node is in flight, after the first one's chunks were
\* consumed and its result resolved.
C13_Witness ==
    \E i \in invs :
        /\ streamingCallback[i]
        /\ Len(dispatched[i]) = 2
        /\ Len(results[i]) = 1
        /\ streams[i][1].chunks # <<>>
        /\ streams[i][1].done
        /\ ~streams[i][2].done

\* C14: once a dispatched node has raised an error, the invocation has failed
\* with that error, the node that raised is the last one dispatched (no retry,
\* no later dispatch), it raised only once, and no output is returned.
C14_NodeRaises ==
    \A i \in invs :
        raised[i] # <<>> =>
            /\ Len(raised[i]) = 1
            /\ pc[i] = "Failed"
            /\ error[i] = raised[i][1].error
            /\ output[i] = NoResult
            /\ Len(dispatched[i]) = raised[i][1].step
            /\ Len(results[i]) = raised[i][1].step - 1

\* C14 witness: the second node dispatched raised the second kind of error
\* after a chunk was forwarded.
C14_Witness ==
    \E i \in invs :
        /\ raised[i] # <<>>
        /\ raised[i][1].step = 2
        /\ raised[i][1].error = Err("other node error", "")
        /\ chunks[i] # <<>>

\* The invocation has returned an output or has thrown.
Terminated(i) == output[i] # NoResult \/ error[i] # NoError

\* C15: Finished and Failed are absorbing: an invocation that has returned an
\* output or failed takes no further step (no dispatch, no chunk forwarded, no
\* result awaited, no beforeFinish call, outcome unchanged), and no invocation
\* has both returned and failed.
C15_Absorbing ==
    /\ [](\A i \in invs :
            /\ ~(output[i] # NoResult /\ error[i] # NoError)
            /\ pc[i] = "Finished" <=> output[i] # NoResult
            /\ pc[i] = "Failed" <=> error[i] # NoError)
    /\ [][\A i \in invs :
            Terminated(i) =>
                /\ pc'[i] = pc[i]
                /\ output'[i] = output[i]
                /\ error'[i] = error[i]
                /\ dispatched'[i] = dispatched[i]
                /\ chunks'[i] = chunks[i]
                /\ results'[i] = results[i]
                /\ bfCalls'[i] = bfCalls[i]]_vars

\* C15 witness: an invocation has returned after two dispatches and a
\* beforeFinish call, and a registration call was refused since.
C15_Witness ==
    \E i \in invs :
        /\ pc[i] = "Finished"
        /\ Len(dispatched[i]) = 2
        /\ Len(bfCalls[i]) = 1
        /\ thrown # NoThrow

\* The step fails invocation i for one of the three causes of the claim: at
\* the head of the loop the current node name is not registered; the
\* dispatched node raised; or the node's result matched neither shape.
FailsWhileDispatching(i) ==
    \/ /\ pc[i] = "loop"
       /\ ~Registered(currentNode[i])
       /\ dispatched'[i] = dispatched[i]
       /\ error'[i].msg \in {"does not exist", "TypeError"}
    \/ /\ pc[i] \in {"stream", "output"}
       /\ Len(raised'[i]) = Len(raised[i]) + 1
       /\ error'[i] = raised'[i][Len(raised'[i])].error
    \/ /\ pc[i] = "output"
       /\ Len(results'[i]) = Len(results[i]) + 1
       /\ results'[i][Len(results'[i])].kind # "object"
            \/ ~StateSchemaAccepts(results'[i][Len(results'[i])].state)
            \/ results'[i][Len(results'[i])].nextNode.type # "string"
       /\ outputSchema = "done"
       /\ results'[i][Len(results'[i])].kind # "object"
            \/ results'[i][Len(results'[i])].done # "true"
       /\ error'[i] = Err("Invalid output", currentNode[i])

\* C16 as claimed: a traversal (an invocation whose entrypoint has returned)
\* enters Failed only while dispatching and only for one of the three causes.
C16_Original ==
    [][\A i \in invs :
        (pc[i] \notin {"entrypoint", "Failed"} /\ pc'[i] = "Failed")
        => FailsWhileDispatching(i)]_vars

\* C16 as amended: an invocation enters Failed only because the entrypoint
\* raised before anything was dispatched, or while dispatching for one of the
\* three causes, or because beforeFinish raised after a node's result matched
\* outputShape.
C16_FailureCauses ==
    [][\A i \in invs :
        (pc[i] # "Failed" /\ pc'[i] = "Failed")
        => \/ /\ pc[i] = "entrypoint"
              /\ dispatched'[i] = <<>>
              /\ error'[i] = Err("entrypoint error", "")
           \/ FailsWhileDispatching(i)
           \/ /\ pc[i] = "beforeFinish"
              /\ bfCalls'[i][Len(bfCalls'[i])].outcome = "threw"
              /\ error'[i] = Err("beforeFinish error", "")]_vars

\* C16 witness: an invocation failed because its second node returned a
\* result of neither shape.
C16_Witness ==
    \E i \in invs :
        /\ pc[i] = "Failed"
        /\ error[i].msg = "Invalid output"
        /\ Len(results[i]) = 2
        /\ raised[i] = <<>>

\* C20: on a Continuation match the input of the next node dispatched is the
\* state of the parsed data (the node's result as parsed against the
\* Continuation shape), and the node dispatched is the one nextNode names.
C20_ParsedStateAdopted ==
    \A i \in invs :
        \A k \in 2..Len(dispatched[i]) :
            /\ dispatched[i][k].input = ParsedState(results[i][k - 1].state)
            /\ dispatched[i][k].node = results[i][k - 1].nextNode.name

\* C17: toOpenAIRole returns for each of the four host roles, mapping user to
\* user, model to assistant, system to system and tool to tool; for any other
\* role it throws the error that the role does not map to an OpenAI role, and
\* returns nothing.
C17_RoleMapping ==
    adapter.fn = "toOpenAIRole" =>
        IF adapter.input \in HostRoles
        THEN /\ adapter.outcome = "returned"
             /\ adapter.input = "user" => adapter.value = "user"
             /\ adapter.input = "model" => adapter.value = "assistant"
             /\ adapter.input = "system" => adapter.value = "system"
             /\ adapter.input = "tool" => adapter.value = "tool"
        ELSE /\ adapter.outcome = "threw"
             /\ adapter.value = [msg |-> "role doesn't map to an OpenAI role.",
                                 arg |-> adapter.input]

\* C17 witness: toOpenAIRole was called with a role that is none of the
\* host's and is a role of OpenAI.
C17_Witness ==
    /\ adapter.fn = "toOpenAIRole"
    /\ adapter.input = "assistant"
    /\ adapter.outcome = "threw"

\* The other of the two formats text and json.
OtherFormat(format) == IF format = "json" THEN "text" ELSE "json"

\* C18: for gpt-3.5-turbo, gpt-4-turbo and gpt-4o the body carries
\* response_format {type: json_object} for format json and {type: text} for
\* format text; for gpt-4 and gpt-4-vision the body carries no response_format
\* for either format, and equals the body produced for the other format.
C18_ResponseFormat ==
    (/\ adapter.fn = "toOpenAiRequestBody"
     /\ adapter.input.request.format \in {"json", "text"}
     /\ adapter.input.model \in {"gpt-3.5-turbo", "gpt-4-turbo", "gpt-4o", "gpt-4", "gpt-4-vision"})
    => /\ adapter.outcome = "returned"
       /\ adapter.input.model \in {"gpt-3.5-turbo", "gpt-4-turbo", "gpt-4o"} =>
             adapter.value.response_format =
                IF adapter.input.request.format = "json" THEN "json_object" ELSE "text"
       /\ adapter.input.model \in {"gpt-4", "gpt-4-vision"} =>
             /\ adapter.value.response_format = "absent"
             /\ \A o \in toOpenAiRequestBody(adapter.input.model,
                            Request(adapter.input.request.messages,
                                    OtherFormat(adapter.input.request.format))) :
                    o = ReturnedValue(adapter.value)

\* C18 witness: a body with response_format json_object was produced for
\* gpt-4-turbo from a request with a message of the model.
C18_Witness ==
    /\ adapter.fn = "toOpenAiRequestBody"
    /\ adapter.input.model = "gpt-4-turbo"
    /\ adapter.input.request.format = "json"
    /\ adapter.input.request.messages = <<"model">>
    /\ adapter.value.messages = <<"assistant">>
    /\ adapter.outcome = "returned"
    /\ adapter.value.response_format = "json_object"

\* p is an initial part of q.
IsPrefix(p, q) == Len(p) <= Len(q) /\ p = SubSeq(q, 1, Len(p))

\* What an invocation does when it runs alone from state s at node n, over
\* the scripted nodes: <<the streamFlow calls, the chunks the nodes emit,
\* the output returned or NoResult, the error thrown or NoError>>.
RECURSIVE SoloRun(_, _)
SoloRun(s, n) ==
    IF Lookup(n) = NoFlow
    THEN <<(<<>>), <<>>, NoResult, UnknownNodeError(n)>>
    ELSE LET call == [node |-> n, flow |-> Lookup(n), input |-> s]
             r == ScriptedResult(n, s)
         IN IF ScriptedRaises(n, s)
            THEN <<(<<call>>), ScriptedChunks(n), NoResult, ScriptedError>>
            ELSE IF IsContinuation(r)
            THEN LET rest == SoloRun(r.state, r.nextNode.name)
                 IN <<(<<call>> \o rest[1]), ScriptedChunks(n) \o rest[2], rest[3], rest[4]>>
            ELSE IF IsOutput(r)
            THEN <<(<<call>>), ScriptedChunks(n), r, NoError>>
            ELSE <<(<<call>>), ScriptedChunks(n), NoResult, Err("Invalid output", n)>>

\* C21: with two invocations interleaved over an unchanging registry, what
\* each of them has dispatched (node, flow and input state), the chunks
\* delivered to its callback and its outcome are at every moment an initial
\* part of, and at its end equal to, what it does when it runs alone from
\* the same entrypoint result.
C21_NoInterference ==
    \A i \in invs :
        entry[i] # NoEntry =>
            LET solo == SoloRun(entry[i].state, entry[i].nextNode)
            IN /\ IsPrefix(dispatched[i], solo[1])
               /\ IF streamingCallback[i]
                  THEN IsPrefix(chunks[i], solo[2])
                  ELSE chunks[i] = <<>>
               /\ pc[i] = "Finished" =>
                     /\ dispatched[i] = solo[1]
                     /\ output[i] = solo[3]
                     /\ error[i] = NoError
                     /\ streamingCallback[i] => chunks[i] = solo[2]
               /\ pc[i] = "Failed" =>
                     /\ dispatched[i] = solo[1]
                     /\ error[i] = solo[4]
                     /\ output[i] = NoResult

\* C21 witness: one invocation, started at b, has dispatched b, a, b and is
\* reading the last one's chunks while the other, started at a, has finished
\* after three dispatches with all its chunks delivered.
C21_Witness ==
    /\ pc[1] = "stream"
    /\ Len(dispatched[1]) = 3
    /\ entry[1] = [state |-> Count(0), nextNode |-> "b"]
    /\ pc[2] = "Finished"
    /\ entry[2] = [state |-> Count(0), nextNode |-> "a"]
    /\ chunks[2] = <<"x", "y", "x", "x">>

\* C22: the registry is read when a node is reached: the step an invocation
\* takes at the head of the loop fails with the unknown-node error exactly
\* when currentNode is not registered at that moment, and otherwise
\* dispatches the flow registered under it then, whenever it was registered.
C22_ReadAtDispatch ==
    [][\A i \in invs :
        (pc[i] = "loop" /\ pc'[i] # "loop")
        => IF Registered(currentNode[i])
           THEN /\ pc'[i] # "Failed"
                /\ dispatched'[i] = Append(dispatched[i],
                        [node |-> currentNode[i], flow |-> nodes[currentNode[i]],
                         input |-> state[i]])
           ELSE /\ pc'[i] = "Failed"
                /\ error'[i] = UnknownNodeError(currentNode[i])
                /\ dispatched'[i] = dispatched[i]]_vars

\* C23: the executor has no step or cycle limit: over nodes that always
\* return a Continuation naming themselves or each other, the invocation
\* never finishes and never fails, and whenever it stands at the head of the
\* loop, however many nodes it has dispatched, its next pass is possible.
C23_NoStepLimit ==
    \A i \in invs :
        /\ pc[i] \notin {"Finished", "Failed"}
        /\ output[i] = NoResult
        /\ error[i] = NoError
        /\ bfCalls[i] = <<>>
        /\ pc[i] = "loop" => ENABLED LoopIteration(i)

\* C23 witness: the traversal stands at the head of the loop after as many
\* dispatches as it is followed for, the last two of the same node.
C23_Witness ==
    \E i \in invs :
        /\ pc[i] = "loop"
        /\ Len(dispatched[i]) = CycleLimit
        /\ Len(results[i]) = CycleLimit
        /\ dispatched[i][CycleLimit].node = dispatched[i][CycleLimit - 1].node
        /\ currentNode[i] = dispatched[i][CycleLimit].node

\* C24: the chunks delivered to the streaming callback only ever grow: every
\* step leaves the sequence delivered so far as an initial part of the
\* sequence delivered after it, also the steps by which the invocation fails
\* (a node raising, an invalid result, an unknown nextNode, beforeFinish
\* raising), so a failed invocation keeps the chunks it has delivered.
C24_ChunksKept ==
    [][\A i \in invs :
        /\ IsPrefix(chunks[i], chunks'[i])
        /\ pc'[i] = "Failed" => chunks'[i] = chunks[i]]_vars

\* C24 witness: an invocation failed because beforeFinish raised, with a
\* chunk delivered before.
C24_Witness ==
    \E i \in invs :
        /\ pc[i] = "Failed"
        /\ error[i] = Err("beforeFinish error", "")
        /\ chunks[i] # <<>>

\* C25: streaming does not influence control flow: of two invocations with
\* the same entrypoint result, one with a streaming callback and one
\* without, the dispatches made (node, flow and input state) agree as far as
\* both have got, and once both have ended they made the same dispatches and
\* have the same output or error; the one without callback is forwarded no
\* chunk, reads no stream, and still awaits each result before its next step.
C25_StreamingIndependent ==
    \A i, j \in invs :
        (/\ entry[i] # NoEntry
         /\ entry[i] = entry[j]
         /\ streamingCallback[i]
         /\ ~streamingCallback[j])
        => /\ IsPrefix(dispatched[i], dispatched[j]) \/ IsPrefix(dispatched[j], dispatched[i])
           /\ (Terminated(i) /\ Terminated(j)) =>
                 /\ dispatched[i] = dispatched[j]
                 /\ results[i] = results[j]
                 /\ output[i] = output[j]
                 /\ error[i] = error[j]
           /\ chunks[j] = <<>>
           /\ streams[j] = <<>>
           /\ Len(dispatched[j]) <= Len(results[j]) + 1
           /\ pc[j] = "loop" => Len(results[j]) = Len(dispatched[j])

\* C25 witness: from the same entrypoint result, the invocation with a
\* callback and the one without have both finished after four dispatches,
\* the first with six chunks delivered.
C25_Witness ==
    /\ entry[1] = entry[2]
    /\ streamingCallback[1]
    /\ ~streamingCallback[2]
    /\ pc[1] = "Finished"
    /\ pc[2] = "Finished"
    /\ Len(dispatched[2]) = 4
    /\ Len(chunks[1]) = 6

\* The traversal went on after the k-th result of invocation i: a further
\* node was dispatched, or the head of the loop was reached again.
Continued(i, k) ==
    \/ k < Len(dispatched[i])
    \/ /\ k = Len(dispatched[i])
       /\ \/ pc[i] = "loop"
          \/ pc[i] = "Failed" /\ error[i].msg \in {"does not exist", "TypeError"}

\* C26: a graph that declares no outputShape never fails with the
\* invalid-output error: every result the traversal did not go on after was
\* accepted as Terminal (beforeFinish called with it, or returned); and in a
\* graph that declares no stateShape the traversal went on after a result
\* exactly when its nextNode is a string.
C26_UndeclaredShapes ==
    \A i \in invs :
        /\ outputSchema = "omitted" =>
              /\ error[i].msg # "Invalid output"
              /\ \A k \in 1..Len(results[i]) :
                    ~Continued(i, k) =>
                        /\ k = Len(results[i])
                        /\ IF hasBeforeFinish
                           THEN /\ Len(bfCalls[i]) = 1
                                /\ bfCalls[i][1].output = results[i][k]
                           ELSE output[i] = results[i][k]
        /\ stateSchema = "omitted" =>
              \A k \in 1..Len(results[i]) :
                  Continued(i, k) <=> results[i][k].nextNode.type = "string"

\* C26 witness: in a graph that declares neither shape, a node returned
\* {nextNode: "b", done: true}, the traversal went on to b, and b's result,
\* a string, was returned as the output.
C26_Witness ==
    \E i \in invs :
        /\ stateSchema = "omitted"
        /\ outputSchema = "omitted"
        /\ Len(results[i]) = 2
        /\ results[i][1] = Obj(UndefinedState, Str("b"), "true")
        /\ dispatched[i][2].input = UndefinedState
        /\ pc[i] = "Finished"
        /\ output[i] = Primitive

\* C27: no addNode or removeNode call, whether it returns or throws, removes
\* or replaces a registered node: a name that holds a flow holds the same
\* flow after every step.
C27_RegistryGrows ==
    [][\A n \in DOMAIN nodes :
        nodes[n] # NoFlow => (n \in DOMAIN nodes' /\ nodes'[n] = nodes[n])]_vars

\* C27 witness: both names are registered, a by its second flow, and the
\* last call, a removeNode of b, was refused.
C27_Witness ==
    /\ nodes["a"] = [name |-> "a", id |-> 2]
    /\ nodes["b"] # NoFlow
    /\ thrown = AlreadyExists("removeNode", "b")

\* C28: beforeFinish is invoked only after a node result was accepted as
\* Terminal: while a call of it exists, the last result resolved is not a
\* Continuation, satisfies the output shape and is the call's output, and
\* the invocation is in the hook, has returned, or failed by the hook's
\* raise; an invocation that is still traversing, or failed because the
\* entrypoint raised, a node raised or a result matched neither shape, has
\* made no call.
C28_BeforeFinishAfterTerminal ==
    \A i \in invs :
        /\ bfCalls[i] # <<>> =>
              /\ hasBeforeFinish
              /\ results[i] # <<>>
              /\ ~IsContinuation(results[i][Len(results[i])])
              /\ IsOutput(results[i][Len(results[i])])
              /\ bfCalls[i][Len(bfCalls[i])].output = results[i][Len(results[i])]
              /\ Len(results[i]) = Len(dispatched[i])
              /\ \/ pc[i] \in {"beforeFinish", "Finished"}
                 \/ pc[i] = "Failed" /\ error[i] = Err("beforeFinish error", "")
        /\ pc[i] \in {"idle", "entrypoint", "loop", "stream", "output"} => bfCalls[i] = <<>>
        /\ (/\ pc[i] = "Failed"
            /\ \/ error[i] = Err("entrypoint error", "")
               \/ raised[i] # <<>>
               \/ error[i].msg = "Invalid output") => bfCalls[i] = <<>>

\* C28 witness: an invocation whose second node returned a result of neither
\* shape has failed, in a graph with a beforeFinish hook, without calling it.
C28_Witness ==
    \E i \in invs :
        /\ hasBeforeFinish
        /\ pc[i] = "Failed"
        /\ error[i].msg = "Invalid output"
        /\ Len(results[i]) = 2
        /\ bfCalls[i] = <<>>

\* C29: the state passed to beforeFinish is the input of the node that
\* produced the Terminal result (the dispatch made last), and a Terminal
\* result does not change the traversal's state: once a result was accepted
\* as Terminal, `state` is still that input.
C29_BeforeFinishState ==
    \A i \in invs :
        /\ bfCalls[i] # <<>> =>
              bfCalls[i][Len(bfCalls[i])].state = dispatched[i][Len(dispatched[i])].input
        /\ (pc[i] \in {"beforeFinish", "Finished"} \/ bfCalls[i] # <<>>) =>
              /\ state[i] = dispatched[i][Len(dispatched[i])].input
              /\ Len(dispatched[i]) = 1 => state[i] = entry[i].state
              /\ Len(dispatched[i]) > 1 =>
                    state[i] = results[i][Len(results[i]) - 1].state

\* C29 witness: beforeFinish was called with the state the first node's
\* Continuation carried, which is not the entrypoint's state, and the
\* Terminal result {done: true} has no state key.
C29_Witness ==
    \E i \in invs :
        /\ Len(bfCalls[i]) = 1
        /\ Len(dispatched[i]) = 2
        /\ bfCalls[i][1].state = Count(1)
        /\ entry[i].state = OtherState
        /\ results[i][2] = Obj(UndefinedState, UndefinedNext, "true")

\* C30: the entrypoint runs once per invocation and before any node is
\* dispatched: until it has returned nothing is dispatched, forwarded or
\* handed to beforeFinish, and its result is recorded once and never
\* replaced; if it raises, the invocation fails with nothing dispatched, no
\* chunk forwarded and beforeFinish not invoked; and its result is not
\* validated: whatever it returns, the invocation goes to the head of the
\* loop with that state and that node name.
C30_EntrypointOnce ==
    /\ [](\A i \in invs :
            /\ pc[i] \in {"idle", "entrypoint"} =>
                  /\ entry[i] = NoEntry
                  /\ dispatched[i] = <<>>
                  /\ chunks[i] = <<>>
                  /\ bfCalls[i] = <<>>
            /\ dispatched[i] # <<>> => entry[i] # NoEntry
            /\ error[i] = Err("entrypoint error", "") =>
                  /\ pc[i] = "Failed"
                  /\ entry[i] = NoEntry
                  /\ dispatched[i] = <<>>
                  /\ chunks[i] = <<>>
                  /\ bfCalls[i] = <<>>
                  /\ output[i] = NoResult)
    /\ [][\A i \in invs :
            /\ pc'[i] = "entrypoint" => pc[i] \in {"idle", "entrypoint"}
            /\ entry[i] # NoEntry => entry'[i] = entry[i]
            /\ (pc[i] = "entrypoint" /\ entry'[i] # NoEntry) =>
                  /\ pc'[i] = "loop"
                  /\ error'[i] = NoError
                  /\ state'[i] = entry'[i].state
                  /\ currentNode'[i] = entry'[i].nextNode]_vars

\* C30 witness: the entrypoint raised in an invocation that was given a
\* streaming callback, in a graph with a beforeFinish hook and two nodes
\* registered.
C30_Witness ==
    \E i \in invs :
        /\ error[i] = Err("entrypoint error", "")
        /\ streamingCallback[i]
        /\ hasBeforeFinish
        /\ \A n \in OwnNames : Registered(n)

====
